---------------------------- MODULE Spec2Model ----------------------------
(***************************************************************************)
(* Sample/component ordering subsystem of tcga-nmf.                         *)
(*                                                                         *)
(* Python lists and 1-D numpy arrays are TLA+ sequences whose ELEMENTS are  *)
(* the 0-based indices the code uses; a[i] of the code is At(a, i).  A 2-D  *)
(* array is a record [nrows, ncols, rows] (the shape is kept, because a     *)
(* (0, k) and an (n, 0) array are different arrays).  Activities are       *)
(* integers: only their order and their exact sums matter to the code.     *)
(*                                                                         *)
(* A call returns a record [exc, type, val]: exc = "" and val the returned  *)
(* array (type "ndarray"; type "NoneType" when the call returns None), or   *)
(* exc the name of the exception that propagates to the caller.  Where      *)
(* numpy leaves a result open (the order of equal keys under the default,   *)
(* unstable argsort) an operation is the SET of results it may return.     *)
(***************************************************************************)
EXTENDS Integers, Sequences, FiniteSets, TLC

VARIABLES H, sample_ids, cancer_types, call, ret, calls, loader, widget, app

vars == <<H, sample_ids, cancer_types, call, ret, calls, loader, widget, app>>

-----------------------------------------------------------------------------
(* Bounds of the model *)

MaxRows == 2
MaxCols == 2
MaxVal == 1
MaxCalls == 3

-----------------------------------------------------------------------------
(* Arrays *)

At(a, i) == a[i + 1]

Indices(n) == 0 .. (n - 1)

\* all orderings of the finite set S, each as a sequence
RECURSIVE Orderings(_)
Orderings(S) ==
    IF S = {} THEN {<<>>}
    ELSE UNION {{<<x>> \o p : p \in Orderings(S \ {x})} : x \in S}

\* all orderings of 0..n-1
Permutations0(n) == Orderings(Indices(n))

IsPermutationOfRange(s, n) ==
    /\ Len(s) = n
    /\ \A v \in Indices(n) : \E i \in 1 .. n : s[i] = v

Matrix(n, k, r) == [nrows |-> n, ncols |-> k, rows |-> r]

Matrices(maxRows, minCols, maxCols, maxVal) ==
    UNION {{Matrix(n, k, r) : r \in [1 .. n -> [1 .. k -> 0 .. maxVal]]} :
              n \in 0 .. maxRows, k \in minCols .. maxCols}

\* mat[:, comp]
Column(mat, comp) == [i \in 1 .. mat.nrows |-> At(mat.rows[i], comp)]

\* mat[:, cols]  (TakeColumns_skipped: the columns left as they are)
TakeColumns_skipped(mat, cols) == mat

TakeColumns(mat, cols) ==
    Matrix(mat.nrows, Len(cols),
           [i \in 1 .. mat.nrows |-> [j \in 1 .. Len(cols) |-> At(mat.rows[i], cols[j])]])

\* mat[sub, :]
TakeRows(mat, sub) ==
    Matrix(Len(sub), mat.ncols, [i \in 1 .. Len(sub) |-> mat.rows[sub[i] + 1]])

\* -a
Negate_missing(a) == a

Negate(a) == [i \in 1 .. Len(a) |-> 0 - a[i]]

RECURSIVE SumSeq(_)
SumSeq(a) == IF a = <<>> THEN 0 ELSE a[1] + SumSeq(Tail(a))

\* mat.sum(axis=0): one sum per column, zeros when there are no rows
SumAxis0(mat) == [j \in 1 .. mat.ncols |-> SumSeq(Column(mat, j - 1))]

\* idx[mask]: the elements of idx that pass the test, in idx's order
RECURSIVE BoolIndex(_, _)
BoolIndex(idx, mask) ==
    IF idx = <<>> THEN <<>>
    ELSE (IF mask[1] THEN <<idx[1]>> ELSE <<>>) \o BoolIndex(Tail(idx), Tail(mask))

Ok(v) == [exc |-> "", type |-> "ndarray", val |-> v, printed |-> <<>>]
None == [exc |-> "", type |-> "NoneType", val |-> <<>>, printed |-> <<>>]
Raise(e) == [exc |-> e, type |-> "", val |-> <<>>, printed |-> <<>>]

\* print(line) on the way to the outcome r
Printing(r, line) == [r EXCEPT !.printed = Append(@, line)]

-----------------------------------------------------------------------------
(* numpy primitives the sort code calls *)

\* np.argmax of one row: the index of the first occurrence of the maximum
\* (argmax_last: of the last occurrence)
argmax_last(row) ==
    CHOOSE j \in Indices(Len(row)) :
        /\ \A j2 \in Indices(Len(row)) : At(row, j2) <= At(row, j)
        /\ \A j2 \in Indices(Len(row)) : j2 > j => At(row, j2) < At(row, j)

argmax(row) ==
    CHOOSE j \in Indices(Len(row)) :
        /\ \A j2 \in Indices(Len(row)) : At(row, j2) <= At(row, j)
        /\ \A j2 \in Indices(j) : At(row, j2) < At(row, j)

\* np.argmax(mat, axis=1).  numpy refuses a reduction axis of length 0
\* ("attempt to get argmax of an empty sequence"), whatever the row count.
argmax_axis1(mat) ==
    IF mat.ncols = 0 THEN Raise("ValueError")
    ELSE Ok([i \in 1 .. mat.nrows |-> argmax(mat.rows[i])])

\* np.argsort(a) with the default kind ("quicksort", documented as not
\* stable): every index order along which the keys are non-decreasing is an
\* outcome a numpy build may produce; equal keys come in any order.
argsort(a) ==
    {p \in Permutations0(Len(a)) :
        \A i \in 1 .. (Len(a) - 1) : At(a, p[i]) <= At(a, p[i + 1])}

-----------------------------------------------------------------------------
(* Primary sort engine *)

\* the loop of bar_sort_order from column comp on, with `order` built so far:
\* the set of lists the loop can end with
\* (bar_sort_loop_unfiltered: the loop without the winners filter)
RECURSIVE bar_sort_loop_unfiltered(_, _, _, _)
bar_sort_loop_unfiltered(mat, winners, comp, order) ==
    IF comp >= mat.ncols THEN {order}
    ELSE UNION {bar_sort_loop_unfiltered(mat, winners, comp + 1, order \o idx) :
                idx \in argsort(Negate(Column(mat, comp)))}

RECURSIVE bar_sort_loop(_, _, _, _)
bar_sort_loop(mat, winners, comp, order) ==
    IF comp >= mat.ncols THEN {order}
    ELSE UNION {bar_sort_loop(mat, winners, comp + 1,
                    order \o BoolIndex(idx, [i \in 1 .. Len(idx) |-> At(winners, idx[i]) = comp])) :
                idx \in argsort(Negate(Column(mat, comp)))}

\* nmf_vis.sort_utils.bar_sort_order: the set of possible results
bar_sort_order(mat) ==
    LET winners == argmax_axis1(mat)
    IN  IF winners.exc # "" THEN {winners}
        ELSE {Ok(o) : o \in bar_sort_loop(mat, winners.val, 0, <<>>)}

\* helpers.sort_utils.bar_sort_order: the same code, copied
helpers_bar_sort_order(mat) ==
    LET winners == argmax_axis1(mat)
    IN  IF winners.exc # "" THEN {winners}
        ELSE {Ok(o) : o \in bar_sort_loop(mat, winners.val, 0, <<>>)}

\* Component Ranker: comp_order = np.argsort(-H.sum(axis=0))
rank_components(mat) == argsort(Negate(SumAxis0(mat)))

-----------------------------------------------------------------------------
(* Strings: a Python str is the sequence of its characters *)

CharCode ==
    ("-" :> 45) @@ ("0" :> 48) @@ ("1" :> 49) @@ ("2" :> 50) @@ ("3" :> 51) @@
    ("A" :> 65) @@ ("B" :> 66) @@ ("C" :> 67) @@ ("D" :> 68) @@ ("E" :> 69) @@ ("G" :> 71) @@ ("L" :> 76) @@
    ("R" :> 82) @@ ("T" :> 84) @@ ("U" :> 85) @@
    ("a" :> 97) @@ ("c" :> 99) @@ ("d" :> 100) @@ ("e" :> 101) @@ ("h" :> 104) @@
    ("i" :> 105) @@ ("k" :> 107) @@ ("m" :> 109) @@ ("n" :> 110) @@ ("o" :> 111) @@ ("r" :> 114) @@ ("s" :> 115) @@
    ("t" :> 116) @@ ("w" :> 119)

\* a <= b for str: code point by code point, a proper prefix first
RECURSIVE StrLeq(_, _)
StrLeq(a, b) ==
    IF a = <<>> THEN TRUE
    ELSE IF b = <<>> THEN FALSE
    ELSE IF a[1] # b[1] THEN CharCode[a[1]] < CharCode[b[1]]
    ELSE StrLeq(Tail(a), Tail(b))

\* length of the cancer-code prefix of a sample id (sid[:4], code[:4])
CodeLen == 4

\* s[:n]
Prefix(s, n) == SubSeq(s, 1, IF Len(s) < n THEN Len(s) ELSE n)

\* np.argsort of a list of str, default kind: any order along which the
\* strings are non-decreasing
argsort_str(a) ==
    {p \in Permutations0(Len(a)) :
        \A i \in 1 .. (Len(a) - 1) : StrLeq(At(a, p[i]), At(a, p[i + 1]))}

\* sorted(set(labels)): the distinct labels, ascending
\* (SortedUnique_descending: descending)
SortedUnique_descending(labels) ==
    CHOOSE s \in Orderings({labels[i] : i \in 1 .. Len(labels)}) :
        \A i \in 1 .. (Len(s) - 1) : StrLeq(s[i + 1], s[i])

SortedUnique(labels) ==
    CHOOSE s \in Orderings({labels[i] : i \in 1 .. Len(labels)}) :
        \A i \in 1 .. (Len(s) - 1) : StrLeq(s[i], s[i + 1])

\* np.where(np.array(labels) == x)[0]: the indices holding x, ascending
RECURSIVE Where(_, _, _)
Where(labels, x, from) ==
    IF from >= Len(labels) THEN <<>>
    ELSE (IF At(labels, from) = x THEN <<from>> ELSE <<>>) \o Where(labels, x, from + 1)

\* a[idx] for an index array idx
TakeItems(a, idx) == [i \in 1 .. Len(idx) |-> At(a, idx[i])]

-----------------------------------------------------------------------------
(* Grouping file, as the organ_system strategy finds it when it runs *)

\* config_loads: load_cfg(config_path) returns; file_opens: the grouping json
\* opens and parses; groupings: its "organ_system_groupings" list ([] when
\* the key is absent).  A group is a record that has, or lacks, the fields
\* cancer_codes and group_name.
GroupingEnv(c, f, g) == [config_loads |-> c, file_opens |-> f, groupings |-> g]

Unknown == <<"U", "n", "k", "n", "o", "w", "n">>

\* iterating the groups raises KeyError: a group without "cancer_codes", or a
\* group with codes and without "group_name"
groups_malformed(grouping_data) ==
    \E g \in 1 .. Len(grouping_data) :
        \/ "cancer_codes" \notin DOMAIN grouping_data[g]
        \/ /\ Len(grouping_data[g].cancer_codes) > 0
           /\ "group_name" \notin DOMAIN grouping_data[g]

\* nmf_vis: code_to_organ.get(code, "Unknown") after the dict was filled
\* group by group, keyed by each listed code (a later group overwrites an
\* earlier one)
\* (code_to_organ_unmapped: no key ever matches)
code_to_organ_unmapped(grouping_data, code) == Unknown

code_to_organ_get(grouping_data, code) ==
    LET holders == {g \in 1 .. Len(grouping_data) :
                       \E c \in 1 .. Len(grouping_data[g].cancer_codes) :
                           grouping_data[g].cancer_codes[c] = code}
    IN  IF holders = {} THEN Unknown
        ELSE grouping_data[CHOOSE g \in holders : \A g2 \in holders : g2 <= g].group_name

\* helpers: cancer_to_organ.get(prefix, "Unknown"), the dict keyed by the
\* first four characters of each listed code
cancer_to_organ_get(grouping_data, prefix) ==
    LET holders == {g \in 1 .. Len(grouping_data) :
                       \E c \in 1 .. Len(grouping_data[g].cancer_codes) :
                           Prefix(grouping_data[g].cancer_codes[c], CodeLen) = prefix}
    IN  IF holders = {} THEN Unknown
        ELSE grouping_data[CHOOSE g \in holders : \A g2 \in holders : g2 <= g].group_name

-----------------------------------------------------------------------------
(* Composite strategies, nmf_vis/sort_utils.py *)

get_alphabetical_sort(ids) == {Ok(p) : p \in argsort_str(ids)}

\* the partition loop of get_cancer_type_sort (and, copied, of
\* get_organ_system_sort): for each label in `todo`, rank the label's rows
\* with bar_sort_order and append them as original row indices
\* (partition_loop_unmapped: sub_order appended as it is, not mapped back
\* through sub_indices)
RECURSIVE partition_loop_unmapped(_, _, _, _)
partition_loop_unmapped(H_ord, labels, todo, final_order) ==
    IF todo = <<>> THEN {Ok(final_order)}
    ELSE LET sub_indices == Where(labels, Head(todo), 0)
         IN  UNION {IF sub_order.exc # "" THEN {sub_order}
                    ELSE partition_loop_unmapped(H_ord, labels, Tail(todo),
                             final_order \o sub_order.val) :
                    sub_order \in bar_sort_order(TakeRows(H_ord, sub_indices))}

RECURSIVE partition_loop(_, _, _, _)
partition_loop(H_ord, labels, todo, final_order) ==
    IF todo = <<>> THEN {Ok(final_order)}
    ELSE LET sub_indices == Where(labels, Head(todo), 0)
         IN  IF Len(sub_indices) = 0
                 THEN partition_loop(H_ord, labels, Tail(todo), final_order)
             ELSE IF \E i \in 1 .. Len(sub_indices) : sub_indices[i] >= H_ord.nrows
                 THEN {Raise("IndexError")}
             ELSE UNION {IF sub_order.exc # "" THEN {sub_order}
                         ELSE partition_loop(H_ord, labels, Tail(todo),
                                  final_order \o TakeItems(sub_indices, sub_order.val)) :
                         sub_order \in bar_sort_order(TakeRows(H_ord, sub_indices))}

get_cancer_type_sort(mat, types) ==
    UNION {partition_loop(TakeColumns(mat, comp_order), types, SortedUnique(types), <<>>) :
           comp_order \in rank_components(mat)}

\* the try block of get_organ_system_sort
organ_system_try(mat, ids, env) ==
    IF ~env.config_loads THEN {Raise("FileNotFoundError")}
    ELSE IF ~env.file_opens THEN {Raise("FileNotFoundError")}
    ELSE IF groups_malformed(env.groupings) THEN {Raise("KeyError")}
    ELSE LET organ_systems ==
                 [i \in 1 .. Len(ids) |->
                     code_to_organ_get(env.groupings, Prefix(ids[i], CodeLen))]
         IN  UNION {partition_loop(TakeColumns(mat, comp_order), organ_systems,
                                   SortedUnique(organ_systems), <<>>) :
                    comp_order \in rank_components(mat)}

\* component ordering of the whole matrix: bar_sort_order(H[:, comp_order])
component_sort(mat) ==
    UNION {bar_sort_order(TakeColumns(mat, comp_order)) : comp_order \in rank_components(mat)}

\* try, and on any exception the silent fallback to the component ordering
get_organ_system_sort(mat, types, ids, env) ==
    UNION {IF r.exc = "" THEN {r} ELSE component_sort(mat) : r \in organ_system_try(mat, ids, env)}

get_embryonic_layer_sort(mat, types) == component_sort(mat)

SortMethods == {"component", "alphabetical", "cancer_type", "organ_system", "embryonic_layer"}

get_sample_order(sort_method, mat, ids, types, env) ==
    UNION {LET H_ord == TakeColumns(mat, comp_order)
           IN  CASE sort_method = "component" -> bar_sort_order(H_ord)
                 [] sort_method = "alphabetical" -> get_alphabetical_sort(ids)
                 [] sort_method = "cancer_type" -> get_cancer_type_sort(mat, types)
                 [] sort_method = "organ_system" -> get_organ_system_sort(mat, types, ids, env)
                 [] sort_method = "embryonic_layer" -> get_embryonic_layer_sort(mat, types)
                 [] OTHER -> bar_sort_order(H_ord) :
           comp_order \in rank_components(mat)}

-----------------------------------------------------------------------------
(* Composite strategies, helpers/sort_utils.py *)

helpers_get_alphabetical_sort(ids) == {Ok(p) : p \in argsort_str(ids)}

\* line 27 reads the name sample_ids, which is neither a parameter nor a
\* global of the module: NameError, after the two argsorts that cannot fail
helpers_get_cancer_type_sort(mat, types) == {Raise("NameError")}

\* result[positions] = values
AssignAt(result, positions, values) ==
    [i \in 1 .. Len(result) |->
        IF \E k \in 1 .. Len(positions) : positions[k] = i - 1
        THEN values[CHOOSE k \in 1 .. Len(positions) :
                        /\ positions[k] = i - 1
                        /\ \A k2 \in 1 .. Len(positions) : positions[k2] = i - 1 => k2 <= k]
        ELSE result[i]]

\* the loop over unique_organs of helpers' get_organ_system_sort
RECURSIVE helpers_organ_loop(_, _, _, _, _)
helpers_organ_loop(mat, organ_systems, todo, organ_order, result) ==
    IF todo = <<>> THEN {Ok(result)}
    ELSE LET indices == Where(organ_systems, Head(todo), 0)
             n == Len(indices)
         IN  IF \E i \in 1 .. n : indices[i] >= mat.nrows THEN {Raise("IndexError")}
             ELSE UNION {UNION {IF sub_order.exc # "" THEN {sub_order}
                                ELSE helpers_organ_loop(mat, organ_systems, Tail(todo),
                                         SubSeq(organ_order, n + 1, Len(organ_order)),
                                         AssignAt(result, SubSeq(organ_order, 1, n),
                                                  TakeItems(indices, sub_order.val))) :
                                sub_order \in helpers_bar_sort_order(
                                                 TakeRows(TakeColumns(mat, comp_order), indices))} :
                         comp_order \in rank_components(mat)}

\* the try block of helpers' get_organ_system_sort
helpers_organ_system_try(mat, types, env) ==
    IF ~env.file_opens THEN {Raise("FileNotFoundError")}
    ELSE IF groups_malformed(env.groupings) THEN {Raise("KeyError")}
    ELSE LET organ_systems ==
                 [i \in 1 .. Len(types) |->
                     cancer_to_organ_get(env.groupings, Prefix(types[i], CodeLen))]
         IN  UNION {helpers_organ_loop(mat, organ_systems, SortedUnique(organ_systems),
                                       organ_order, [i \in 1 .. Len(types) |-> 0]) :
                    organ_order \in argsort_str(organ_systems)}

\* load_cfg is called before the try: a missing config propagates; any
\* exception of the try block is printed and falls back to
\* bar_sort_order(H), with the columns NOT reordered
helpers_get_organ_system_sort(mat, types, env) ==
    IF ~env.config_loads THEN {Raise("FileNotFoundError")}
    ELSE UNION {IF r.exc = "" THEN {r}
                ELSE {Printing(f, "Error in organ system sorting") :
                      f \in helpers_bar_sort_order(mat)} :
                r \in helpers_organ_system_try(mat, types, env)}

\* the body is `pass`: the call returns None
helpers_get_embryonic_layer_sort(mat, types) == {None}

helpers_get_sample_order(sort_method, mat, ids, types, env) ==
    CASE sort_method = "component" ->
            UNION {helpers_bar_sort_order(TakeColumns(mat, comp_order)) :
                   comp_order \in rank_components(mat)}
      [] sort_method = "alphabetical" -> helpers_get_alphabetical_sort(ids)
      [] sort_method = "cancer_type" -> helpers_get_cancer_type_sort(mat, types)
      [] sort_method = "organ_system" -> helpers_get_organ_system_sort(mat, types, env)
      [] sort_method = "embryonic_layer" -> helpers_get_embryonic_layer_sort(mat, types)
      [] OTHER -> helpers_bar_sort_order(mat)

-----------------------------------------------------------------------------
(* Calls *)

\* the env of a call that reads no file
NoEnv == GroupingEnv(FALSE, FALSE, <<>>)

NoCall == [fn |-> "", module |-> "", sort_method |-> "", env |-> NoEnv]
NoRet == [exc |-> "not called", type |-> "", val |-> <<>>, printed |-> <<>>]

Modules == {"nmf_vis", "helpers"}

\* no loader module imported, no widget and no visualization constructed
NoLoader == [disk |-> <<>>, cache |-> <<>>, read_csv |-> <<>>]
NoWidget == [constructed |-> FALSE]
NoApp == [constructed |-> FALSE]

\* a caller applies the sort engine to the matrix it holds
Call_bar_sort_order ==
    /\ call = NoCall
    /\ \E m \in Modules :
        /\ call' = [fn |-> "bar_sort_order", module |-> m, sort_method |-> "", env |-> NoEnv]
        /\ ret' \in (IF m = "nmf_vis" THEN bar_sort_order(H) ELSE helpers_bar_sort_order(H))
    /\ UNCHANGED <<H, sample_ids, cancer_types, calls, loader, widget, app>>

\* a caller ranks the components of the matrix it holds
Call_rank_components ==
    /\ call = NoCall
    /\ call' = [fn |-> "rank_components", module |-> "nmf_vis", sort_method |-> "", env |-> NoEnv]
    /\ \E o \in rank_components(H) : ret' = Ok(o)
    /\ UNCHANGED <<H, sample_ids, cancer_types, calls, loader, widget, app>>

\* one call per behaviour: the functions keep no state, so what a call can
\* return depends on its arguments alone
Init ==
    /\ H \in Matrices(MaxRows, 0, MaxCols, MaxVal)
    /\ sample_ids = <<>>
    /\ cancer_types = <<>>
    /\ call = NoCall
    /\ ret = NoRet
    /\ calls = <<>>
    /\ loader = NoLoader
    /\ widget = NoWidget
    /\ app = NoApp

Next ==
    \/ Call_bar_sort_order
    \/ Call_rank_components

Spec == Init /\ [][Next]_vars

-----------------------------------------------------------------------------
(* Sort requests: get_sample_order of either copy, on the data a loader
   hands over *)

BRCA == <<"B", "R", "C", "A">>
LUAD == <<"L", "U", "A", "D">>
Breast == <<"B", "r", "e", "a", "s", "t">>
Thoracic == <<"T", "h", "o", "r", "a", "c", "i", "c">>

SampleIdPool == {BRCA \o <<"-", "1">>, LUAD \o <<"-", "1">>, LUAD \o <<"-", "2">>}
CancerTypePool == {BRCA, LUAD}

EnvConfigMissing == GroupingEnv(FALSE, FALSE, <<>>)
EnvFileMissing == GroupingEnv(TRUE, FALSE, <<>>)
EnvNoGroups == GroupingEnv(TRUE, TRUE, <<>>)
EnvGroups ==
    GroupingEnv(TRUE, TRUE, <<[cancer_codes |-> <<LUAD>>, group_name |-> Thoracic],
                              [cancer_codes |-> <<BRCA>>, group_name |-> Breast]>>)
EnvPartialGroups ==
    GroupingEnv(TRUE, TRUE, <<[cancer_codes |-> <<LUAD>>, group_name |-> Thoracic]>>)
EnvMalformedGroup ==
    GroupingEnv(TRUE, TRUE, <<[group_name |-> Breast]>>)

\* the embryonic-layer grouping file (JSON_FILENAME_EMBRYONIC_LAYER), same
\* layout as the organ-system file
Ectoderm == <<"E", "c", "t", "o", "d", "e", "r", "m">>
Endoderm == <<"E", "n", "d", "o", "d", "e", "r", "m">>
EmbryonicLayerEnv ==
    GroupingEnv(TRUE, TRUE, <<[cancer_codes |-> <<LUAD>>, group_name |-> Endoderm],
                              [cancer_codes |-> <<BRCA>>, group_name |-> Ectoderm]>>)

Envs == {EnvConfigMissing, EnvFileMissing, EnvNoGroups, EnvGroups, EnvPartialGroups,
         EnvMalformedGroup}

\* the five strategy names and a name that is none of them
RequestedMethods == SortMethods \cup {"unrecognized"}

\* the matrix of the specification's concrete scenario
ScenarioH == Matrix(4, 2, <<<<3, 1>>, <<1, 4>>, <<4, 0>>, <<0, 5>>>>)
ScenarioIds ==
    <<LUAD \o <<"-", "1">>, BRCA \o <<"-", "1">>, LUAD \o <<"-", "2">>, BRCA \o <<"-", "2">>>>

\* three identifiers out of order, with a matrix of three rows
TCGA == <<"T", "C", "G", "A">>
AlphaExampleIds == <<TCGA \o <<"-", "0", "3">>, TCGA \o <<"-", "0", "1">>, TCGA \o <<"-", "0", "2">>>>
AlphaExampleH == Matrix(3, 1, <<<<1>>, <<0>>, <<1>>>>)

Call_get_sample_order ==
    /\ call = NoCall
    /\ \E sort_method \in RequestedMethods :
        \E env \in (IF sort_method = "organ_system" THEN Envs ELSE {NoEnv}) :
            /\ call' = [fn |-> "get_sample_order", module |-> "nmf_vis",
                        sort_method |-> sort_method, env |-> env]
            /\ ret' \in get_sample_order(sort_method, H, sample_ids, cancer_types, env)
    /\ UNCHANGED <<H, sample_ids, cancer_types, calls, loader, widget, app>>

Call_helpers_get_sample_order ==
    /\ call = NoCall
    /\ \E sort_method \in RequestedMethods :
        \E env \in (IF sort_method = "organ_system" THEN Envs ELSE {NoEnv}) :
            /\ call' = [fn |-> "get_sample_order", module |-> "helpers",
                        sort_method |-> sort_method, env |-> env]
            /\ ret' \in helpers_get_sample_order(sort_method, H, sample_ids, cancer_types, env)
    /\ UNCHANGED <<H, sample_ids, cancer_types, calls, loader, widget, app>>

\* a matrix with at least one component, and one sample id and one cancer
\* type per row
InitOrder ==
    /\ \/ /\ H \in Matrices(MaxRows, 1, MaxCols, MaxVal)
          /\ sample_ids \in [1 .. H.nrows -> SampleIdPool]
          /\ cancer_types \in [1 .. H.nrows -> CancerTypePool]
       \/ /\ H = ScenarioH
          /\ sample_ids = ScenarioIds
          /\ cancer_types = [i \in 1 .. Len(ScenarioIds) |-> Prefix(ScenarioIds[i], CodeLen)]
       \/ /\ H = AlphaExampleH
          /\ sample_ids = AlphaExampleIds
          /\ cancer_types = [i \in 1 .. Len(AlphaExampleIds) |-> Prefix(AlphaExampleIds[i], CodeLen)]
    /\ call = NoCall
    /\ ret = NoRet
    /\ calls = <<>>
    /\ loader = NoLoader
    /\ widget = NoWidget
    /\ app = NoApp

NextOrder ==
    \/ Call_get_sample_order
    \/ Call_helpers_get_sample_order

SpecOrder == InitOrder /\ [][NextOrder]_vars

\* a caller hands over lists that are not as long as the matrix has rows:
\* get_sample_order checks no lengths before it dispatches
InitMismatch ==
    /\ H \in Matrices(MaxRows, 1, MaxCols, MaxVal)
    /\ sample_ids \in UNION {[1 .. n -> SampleIdPool] : n \in 0 .. MaxRows}
    /\ cancer_types \in UNION {[1 .. n -> CancerTypePool] : n \in 0 .. MaxRows}
    /\ Len(sample_ids) # H.nrows \/ Len(cancer_types) # H.nrows
    /\ call = NoCall
    /\ ret = NoRet
    /\ calls = <<>>
    /\ loader = NoLoader
    /\ widget = NoWidget
    /\ app = NoApp

SpecMismatch == InitMismatch /\ [][NextOrder]_vars

-----------------------------------------------------------------------------
(* Loaders: nmf_vis/data_utils.py (nmf_vis_app/data_utils.py is the same
   code) with its module-level cache, and helpers/data_loader.py *)

\* a csv file as pandas parses it: the sample_id column and the numeric
\* component columns; NoFrame is a path with no file behind it, and a key
\* the cache does not hold
Frame(ids, mat) == [exists |-> TRUE, sample_id |-> ids, components |-> mat]
NoFrame == [exists |-> FALSE, sample_id |-> <<>>, components |-> Matrix(0, 0, <<>>)]

FramePool ==
    {Frame(<<BRCA \o <<"-", "1">>, LUAD \o <<"-", "1">>>>, Matrix(2, 1, <<<<1>>, <<0>>>>)),
     Frame(<<LUAD \o <<"-", "2">>>>, Matrix(1, 2, <<<<0, 1>>>>)),
     Frame(<<BRCA \o <<"-", "1">>>>, Matrix(1, 0, <<<<>>>>))}

CsvPaths == {"comps/nmf_k2.csv", "comps/nmf_k3.csv"}

\* selection=None, or a list of row positions
NoSelection == [given |-> FALSE, rows |-> <<>>]
Select(rows) == [given |-> TRUE, rows |-> rows]
Selections == {NoSelection, Select(<<>>), Select(<<0>>), Select(<<1, 0>>), Select(<<2>>)}

\* _get_dataframe: [loader, out], the loader state after the call and the
\* outcome
\* (get_dataframe_uncached: reads the file whether or not the cache holds it)
get_dataframe_uncached(ld, filepath) ==
    IF ~ld.disk[filepath].exists
        THEN [loader |-> ld, out |-> Raise("FileNotFoundError")]
    ELSE [loader |-> [ld EXCEPT !.cache[filepath] = ld.disk[filepath],
                                !.read_csv[filepath] = @ + 1],
          out |-> [exc |-> "", type |-> "DataFrame", val |-> ld.disk[filepath],
                   printed |-> <<>>]]

_get_dataframe(ld, filepath) ==
    IF ld.cache[filepath] # NoFrame
        THEN [loader |-> ld,
              out |-> [exc |-> "", type |-> "DataFrame", val |-> ld.cache[filepath],
                       printed |-> <<>>]]
    ELSE IF ~ld.disk[filepath].exists
        THEN [loader |-> ld, out |-> Raise("FileNotFoundError")]
    ELSE [loader |-> [ld EXCEPT !.cache[filepath] = ld.disk[filepath],
                                !.read_csv[filepath] = @ + 1],
          out |-> [exc |-> "", type |-> "DataFrame", val |-> ld.disk[filepath],
                   printed |-> <<>>]]

\* df.iloc[selection]: a new frame of the selected rows, in selection order
iloc(df, rows) ==
    Frame(TakeItems(df.sample_id, rows), TakeRows(df.components, rows))

\* (prepare_matrix_only: the selection is applied to the matrix alone)
prepare_matrix_only(df, selection) ==
    IF selection.given /\ \E i \in 1 .. Len(selection.rows) :
                             selection.rows[i] >= Len(df.sample_id)
        THEN Raise("IndexError")
    ELSE LET sub == IF selection.given THEN iloc(df, selection.rows) ELSE df
         IN  IF sub.components.ncols = 0 THEN Raise("ValueError")
             ELSE [exc |-> "", type |-> "tuple", printed |-> <<>>,
                   val |-> <<sub.components, df.sample_id,
                             [i \in 1 .. Len(df.sample_id) |->
                                 Prefix(df.sample_id[i], CodeLen)]>>]

\* the body of _get_prepared_data after the frame is fetched:
\* (H, sample_ids, cancer_types)
prepare(df, selection) ==
    IF selection.given /\ \E i \in 1 .. Len(selection.rows) :
                             selection.rows[i] >= Len(df.sample_id)
        THEN Raise("IndexError")
    ELSE LET sub == IF selection.given THEN iloc(df, selection.rows) ELSE df
         IN  IF sub.components.ncols = 0 THEN Raise("ValueError")
             ELSE [exc |-> "", type |-> "tuple", printed |-> <<>>,
                   val |-> <<sub.components, sub.sample_id,
                             [i \in 1 .. Len(sub.sample_id) |->
                                 Prefix(sub.sample_id[i], CodeLen)]>>]

LoaderCall(fn, m, filepath, selection) ==
    [fn |-> fn, module |-> m, sort_method |-> "", env |-> NoEnv,
     path |-> filepath, selection |-> selection]

Call_get_dataframe ==
    \E filepath \in CsvPaths :
        /\ loader.read_csv[filepath] < MaxCalls
        /\ call' = LoaderCall("_get_dataframe", "nmf_vis", filepath, NoSelection)
        /\ loader' = _get_dataframe(loader, filepath).loader
        /\ ret' = _get_dataframe(loader, filepath).out
        /\ UNCHANGED <<H, sample_ids, cancer_types, calls, widget, app>>

Call_get_prepared_data ==
    \E filepath \in CsvPaths, selection \in Selections :
        /\ loader.read_csv[filepath] < MaxCalls
        /\ call' = LoaderCall("_get_prepared_data", "nmf_vis", filepath, selection)
        /\ loader' = _get_dataframe(loader, filepath).loader
        /\ ret' = LET df == _get_dataframe(loader, filepath).out
                  IN  IF df.exc # "" THEN df ELSE prepare(df.val, selection)
        /\ UNCHANGED <<H, sample_ids, cancer_types, calls, widget, app>>

\* helpers get_prepared_data: no cache, the csv is read on every call and
\* the path printed
get_prepared_data(disk, k_filename) ==
    IF ~disk[k_filename].exists
        THEN Printing(Raise("FileNotFoundError"), "Loading data from")
    ELSE Printing(prepare(disk[k_filename], NoSelection), "Loading data from")

Call_helpers_get_prepared_data ==
    \E filepath \in CsvPaths :
        /\ call' = LoaderCall("get_prepared_data", "helpers", filepath, NoSelection)
        /\ ret' = get_prepared_data(loader.disk, filepath)
        /\ UNCHANGED <<H, sample_ids, cancer_types, calls, loader, widget, app>>

\* the environment puts a file at a path, replaces it or removes it
Write_csv ==
    \E filepath \in CsvPaths, df \in FramePool \cup {NoFrame} :
        /\ loader.disk[filepath] # df
        /\ loader' = [loader EXCEPT !.disk[filepath] = df]
        /\ UNCHANGED <<H, sample_ids, cancer_types, call, ret, calls, widget, app>>

InitLoader ==
    /\ H = Matrix(0, 0, <<>>)
    /\ sample_ids = <<>>
    /\ cancer_types = <<>>
    /\ call = LoaderCall("", "", "", NoSelection)
    /\ ret = NoRet
    /\ calls = <<>>
    /\ loader \in [disk : [CsvPaths -> FramePool \cup {NoFrame}],
                    cache : {[f \in CsvPaths |-> NoFrame]},
                    read_csv : {[f \in CsvPaths |-> 0]}]
    /\ widget = NoWidget
    /\ app = NoApp

NextLoader ==
    \/ Call_get_dataframe
    \/ Call_get_prepared_data
    \/ Call_helpers_get_prepared_data
    \/ Write_csv

SpecLoader == InitLoader /\ [][NextLoader]_vars

-----------------------------------------------------------------------------
(* Category mapper, widget/nmf_plotting.py *)

\* _load_organ_system_data: the "organ_system_groupings" list of the file;
\* any exception (file missing, not JSON, key absent) is printed and the
\* empty list returned
_load_organ_system_data(env) == IF env.file_opens THEN env.groupings ELSE <<>>

GrayColor == "#CCCCCC"

\* a group of the list lacks one of the keys the loop reads
group_lacks_key(grouping_data) ==
    \E g \in 1 .. Len(grouping_data) :
        {"group_name", "color", "cancer_codes"} \ DOMAIN grouping_data[g] # {}

\* the last group listing a code whose first four characters are `code`
\* (0 when there is none): the entry code_to_group / code_to_color keep
last_group_of(grouping_data, code) ==
    LET holders == {g \in 1 .. Len(grouping_data) :
                       \E c \in 1 .. Len(grouping_data[g].cancer_codes) :
                           Prefix(grouping_data[g].cancer_codes[c], CodeLen) = code}
    IN  IF holders = {} THEN 0 ELSE CHOOSE g \in holders : \A g2 \in holders : g2 <= g

\* (map_cancer_codes_listed_only: codes without a group are skipped)
map_cancer_codes_listed_only(cancer_codes, grouping_data) ==
    IF group_lacks_key(grouping_data) THEN Raise("KeyError")
    ELSE LET listed == SelectSeq(cancer_codes, LAMBDA c : last_group_of(grouping_data, c) # 0)
         IN  [exc |-> "", type |-> "tuple", printed |-> <<>>,
              val |-> <<[i \in 1 .. Len(listed) |->
                            grouping_data[last_group_of(grouping_data, listed[i])].group_name],
                        [i \in 1 .. Len(listed) |->
                            grouping_data[last_group_of(grouping_data, listed[i])].color]>>]

\* _map_cancer_codes_to_organ_systems: (groups, group_colors)
_map_cancer_codes_to_organ_systems(cancer_codes, grouping_data) ==
    IF group_lacks_key(grouping_data) THEN Raise("KeyError")
    ELSE [exc |-> "", type |-> "tuple", printed |-> <<>>,
          val |-> <<[i \in 1 .. Len(cancer_codes) |->
                        LET g == last_group_of(grouping_data, cancer_codes[i])
                        IN  IF g = 0 THEN Unknown ELSE grouping_data[g].group_name],
                    [i \in 1 .. Len(cancer_codes) |->
                        LET g == last_group_of(grouping_data, cancer_codes[i])
                        IN  IF g = 0 THEN GrayColor ELSE grouping_data[g].color]>>]

\* cancer codes: the first four characters of a sample id at most
OV == <<"O", "V">>
GBM == <<"G", "B", "M">>
CancerCodePool == {BRCA, LUAD, OV, GBM}

Neural == <<"N", "e", "u", "r", "a", "l">>

EnvColoredGroups ==
    GroupingEnv(TRUE, TRUE,
        <<[cancer_codes |-> <<LUAD>>, group_name |-> Thoracic, color |-> "#1f77b4"],
          [cancer_codes |-> <<BRCA, OV>>, group_name |-> Breast, color |-> "#e377c2"],
          [cancer_codes |-> <<GBM>>, group_name |-> Neural, color |-> "#2ca02c"]>>)
EnvColoredPartial ==
    GroupingEnv(TRUE, TRUE,
        <<[cancer_codes |-> <<GBM, LUAD>>, group_name |-> Thoracic, color |-> "#1f77b4"]>>)
EnvColoredEmptyGroup ==
    GroupingEnv(TRUE, TRUE,
        <<[cancer_codes |-> <<>>, group_name |-> Neural, color |-> "#2ca02c"],
          [cancer_codes |-> <<OV>>, group_name |-> Breast, color |-> "#e377c2"]>>)

MapperEnvs == {EnvFileMissing, EnvNoGroups, EnvColoredGroups, EnvColoredPartial,
               EnvColoredEmptyGroup}

\* create_nmf_heatmap_figure maps the short labels of its samples through
\* the table of one grouping file
Call_map_cancer_codes ==
    /\ call = NoCall
    /\ \E env \in MapperEnvs :
        /\ call' = [fn |-> "_map_cancer_codes_to_organ_systems", module |-> "widget",
                    sort_method |-> "", env |-> env]
        /\ ret' = _map_cancer_codes_to_organ_systems(cancer_types, _load_organ_system_data(env))
    /\ UNCHANGED <<H, sample_ids, cancer_types, calls, loader, widget, app>>

InitMapper ==
    /\ H = Matrix(0, 0, <<>>)
    /\ sample_ids = <<>>
    /\ cancer_types \in UNION {[1 .. n -> CancerCodePool] : n \in 0 .. MaxRows}
    /\ call = NoCall
    /\ ret = NoRet
    /\ calls = <<>>
    /\ loader = NoLoader
    /\ widget = NoWidget
    /\ app = NoApp

NextMapper == Call_map_cancer_codes

SpecMapper == InitMapper /\ [][NextMapper]_vars

-----------------------------------------------------------------------------
(* A caller that keeps its H, sample_ids and cancer_types and calls
   get_sample_order again and again.  numpy's sorts are deterministic
   algorithms: within one build the order of equal keys, left open by the
   documentation, is a function of the array sorted.  A call whose arguments
   have the values of an earlier call therefore computes what that call
   computed; only the first such call picks among the possible tie orders. *)

\* the matrix the caller holds when get_sample_order returns: H[:, comp_order]
\* and H_ord[sub_indices, :] build new arrays, nothing is assigned into H
\* (H_after_in_place: the columns are ranked in place, H[:] = H[:, comp_order])
H_after_in_place(mat) == TakeColumns(mat, CHOOSE o \in rank_components(mat) : TRUE)

H_after_get_sample_order(mat) == mat

\* the outcomes of the call `args` given the calls made so far
OutcomesAgain(args) ==
    LET before == {i \in 1 .. Len(calls) : calls[i].args = args}
    IN  IF before # {} THEN {calls[CHOOSE i \in before : TRUE].ret}
        ELSE IF args.module = "nmf_vis"
            THEN get_sample_order(args.sort_method, args.H, args.sample_ids,
                                  args.cancer_types, args.env)
        ELSE helpers_get_sample_order(args.sort_method, args.H, args.sample_ids,
                                      args.cancer_types, args.env)

CallAgain(m) ==
    /\ Len(calls) < MaxCalls
    /\ H' = H_after_get_sample_order(H)
    /\ UNCHANGED <<sample_ids, cancer_types, loader, widget, app>>
    /\ \E sort_method \in RequestedMethods :
        \E env \in (IF sort_method = "organ_system" THEN {EnvGroups, EnvFileMissing} ELSE {NoEnv}) :
            LET args == [module |-> m, sort_method |-> sort_method, env |-> env, H |-> H,
                         sample_ids |-> sample_ids, cancer_types |-> cancer_types]
            IN  /\ call' = [fn |-> "get_sample_order", module |-> m,
                            sort_method |-> sort_method, env |-> env]
                /\ ret' \in OutcomesAgain(args)
                /\ calls' = Append(calls, [args |-> args, ret |-> ret',
                                           after |-> <<H', sample_ids', cancer_types'>>])

Again_get_sample_order == CallAgain("nmf_vis")

Again_helpers_get_sample_order == CallAgain("helpers")

\* what a loader hands over: one id per row, the cancer type its prefix
InitCalls ==
    /\ H \in Matrices(MaxRows, 1, MaxCols, MaxVal)
    /\ H.nrows = MaxRows
    /\ sample_ids \in [1 .. H.nrows -> {BRCA \o <<"-", "1">>, LUAD \o <<"-", "1">>}]
    /\ cancer_types = [i \in 1 .. H.nrows |-> Prefix(sample_ids[i], CodeLen)]
    /\ call = NoCall
    /\ ret = NoRet
    /\ calls = <<>>
    /\ loader = NoLoader
    /\ widget = NoWidget
    /\ app = NoApp

NextCalls ==
    \/ Again_get_sample_order
    \/ Again_helpers_get_sample_order

SpecCalls == InitCalls /\ [][NextCalls]_vars

-----------------------------------------------------------------------------
(* NMFHeatmapWidget, widget/nmf_widget.py.  The widget record holds the
   attributes of the object under their names; env is the state of the
   grouping file, recreations the parity of the number of _recreate_figure
   runs, and recreate_saw the K file, sort method and highlight list the
   last run started with. *)

\* the K files discover_nmf_k_files lists, by ascending K: two samples, one
\* sample, and a csv without numeric columns
KFiles == <<"nmf_k2.csv", "nmf_k3.csv", "nmf_k4.csv">>

WidgetDisk ==
    ("nmf_k2.csv" :> Frame(<<BRCA \o <<"-", "1">>, LUAD \o <<"-", "1">>>>,
                           Matrix(2, 2, <<<<1, 0>>, <<2, 0>>>>))) @@
    ("nmf_k3.csv" :> Frame(<<LUAD \o <<"-", "2">>>>, Matrix(1, 2, <<<<0, 1>>>>))) @@
    ("nmf_k4.csv" :> Frame(<<BRCA \o <<"-", "1">>>>, Matrix(1, 0, <<<<>>>>)))

\* the values of the sort dropdown
SortOptions == {"component", "alphabetical", "cancer_type", "organ_system"}

\* the attributes __init__ sets before its first _recreate_figure
NewWidget(env) ==
    [constructed |-> TRUE,
     env |-> env,
     _current_sort |-> "component",
     _current_k_file |-> KFiles[1],
     _highlighted_sample_ids |-> <<>>,
     selected_sample_ids_from_heatmap |-> <<>>,
     _all_original_sample_ids_for_current_k |-> <<>>,
     _current_heatmap_sample_order_indices |-> <<>>,
     figure |-> "Initializing...",
     recreations |-> 0,
     recreate_saw |-> [k_file |-> "", sort |-> "", highlighted |-> <<>>]]

\* _recreate_figure: the widget after the run.  Every exception is caught
\* and leaves the placeholder figure; what was assigned before it stays.
\* create_nmf_heatmap_figure takes cfg_path and sort_method only, so the call
\* of lines 150-157 with k_filename= raises TypeError once the data and
\* the order are stored.
_recreate_figure(w, disk) ==
    LET entered == [w EXCEPT !.recreations = (@ + 1) % 2,
                             !.figure = "Figure Creation Error",
                             !.recreate_saw = [k_file |-> w._current_k_file,
                                               sort |-> w._current_sort,
                                               highlighted |-> w._highlighted_sample_ids]]
        data == get_prepared_data(disk, w._current_k_file)
    IN  IF data.exc # "" THEN {entered}
        ELSE LET loaded == [entered EXCEPT
                               !._all_original_sample_ids_for_current_k = data.val[2]]
             IN  UNION {IF order.exc # "" THEN {loaded}
                        ELSE {[loaded EXCEPT
                                  !._current_heatmap_sample_order_indices = order.val]} :
                        order \in helpers_get_sample_order(w._current_sort, data.val[1],
                                                           data.val[2], data.val[3], w.env)}

\* an event on the widget: the handler, the new value it is handed, and
\* what the widget held when it arrived
WidgetCall(fn, new, w) ==
    [fn |-> fn, module |-> "widget", sort_method |-> "", env |-> NoEnv, new |-> new,
     old |-> [k_file |-> w._current_k_file,
              sort |-> w._current_sort,
              selected |-> w.selected_sample_ids_from_heatmap,
              highlighted |-> w._highlighted_sample_ids]]

\* (on_k_change_keeping: the selection and the highlight are kept)
on_k_change_keeping(w, disk, new_k_file) ==
    IF new_k_file # w._current_k_file
        THEN _recreate_figure([w EXCEPT !._current_k_file = new_k_file], disk)
    ELSE {w}

_on_k_change(w, disk, new_k_file) ==
    IF new_k_file # w._current_k_file
        THEN _recreate_figure([w EXCEPT !._current_k_file = new_k_file,
                                        !.selected_sample_ids_from_heatmap = <<>>,
                                        !._highlighted_sample_ids = <<>>], disk)
    ELSE {w}

\* (on_sort_change_always: the figure is rebuilt whatever the new value)
on_sort_change_always(w, disk, new_sort) ==
    _recreate_figure([w EXCEPT !._current_sort = new_sort], disk)

_on_sort_change(w, disk, new_sort) ==
    IF new_sort # w._current_sort
        THEN _recreate_figure([w EXCEPT !._current_sort = new_sort], disk)
    ELSE {w}

\* sorted(a) == sorted(b) for lists of str: the same elements as often
SameSorted(a, b) ==
    /\ Len(a) = Len(b)
    /\ \A x \in {a[i] : i \in 1 .. Len(a)} \cup {b[i] : i \in 1 .. Len(b)} :
          Cardinality({i \in 1 .. Len(a) : a[i] = x})
              = Cardinality({i \in 1 .. Len(b) : b[i] = x})

update_highlight_from_external(w, disk, sample_ids_to_highlight) ==
    IF ~SameSorted(w._highlighted_sample_ids, sample_ids_to_highlight)
        THEN _recreate_figure([w EXCEPT !._highlighted_sample_ids = sample_ids_to_highlight],
                              disk)
    ELSE {w}

\* np.unique(xs): the distinct values, ascending
RECURSIVE unique_from(_, _, _)
unique_from(xs, v, top) ==
    IF v > top THEN <<>>
    ELSE (IF \E i \in 1 .. Len(xs) : xs[i] = v THEN <<v>> ELSE <<>>)
             \o unique_from(xs, v + 1, top)

\* (plotly_selection_positions: the x positions are published as they are,
\* not mapped through the sample order)
plotly_selection_positions(w, xs) ==
    LET ids == w._all_original_sample_ids_for_current_k
        positions == unique_from(xs, 0, MaxRows)
    IN  IF xs = <<>> THEN [exc |-> "", view |-> <<>>]
        ELSE IF \E i \in 1 .. Len(positions) : positions[i] >= Len(ids)
            THEN [exc |-> "IndexError", view |-> <<>>]
        ELSE [exc |-> "", view |-> TakeItems(ids, positions)]

\* the first half of _on_plotly_selection: selected_ids_from_heatmap_view
plotly_selection_view(w, xs) ==
    LET order == w._current_heatmap_sample_order_indices
        ids == w._all_original_sample_ids_for_current_k
        positions == unique_from(xs, 0, MaxRows)
    IN  IF xs = <<>> THEN [exc |-> "", view |-> <<>>]
        ELSE IF \E i \in 1 .. Len(positions) : positions[i] >= Len(order)
            THEN [exc |-> "IndexError", view |-> <<>>]
        ELSE IF \E i \in 1 .. Len(positions) : At(order, positions[i]) >= Len(ids)
            THEN [exc |-> "IndexError", view |-> <<>>]
        ELSE [exc |-> "", view |-> TakeItems(ids, TakeItems(order, positions))]

\* the values of the K dropdown, the new K file of a change event
K_change ==
    \E new_k_file \in {KFiles[i] : i \in 1 .. Len(KFiles)} :
        /\ call' = WidgetCall("_on_k_change", new_k_file, widget)
        /\ widget' \in _on_k_change(widget, loader.disk, new_k_file)
        /\ ret' = None
        /\ UNCHANGED <<H, sample_ids, cancer_types, calls, loader, app>>

Sort_change ==
    \E new_sort \in SortOptions :
        /\ call' = WidgetCall("_on_sort_change", new_sort, widget)
        /\ widget' \in _on_sort_change(widget, loader.disk, new_sort)
        /\ ret' = None
        /\ UNCHANGED <<H, sample_ids, cancer_types, calls, loader, app>>

\* the lists another view asks to highlight
HighlightLists ==
    {<<>>, <<BRCA \o <<"-", "1">>>>,
     <<LUAD \o <<"-", "1">>, BRCA \o <<"-", "1">>>>,
     <<BRCA \o <<"-", "1">>, LUAD \o <<"-", "1">>>>}

External_highlight ==
    \E sample_ids_to_highlight \in HighlightLists :
        /\ call' = WidgetCall("update_highlight_from_external", sample_ids_to_highlight, widget)
        /\ widget' \in update_highlight_from_external(widget, loader.disk,
                                                      sample_ids_to_highlight)
        /\ ret' = None
        /\ UNCHANGED <<H, sample_ids, cancer_types, calls, loader, app>>

\* the x positions of the points of a selection on a heatmap drawn from the
\* stored order ([] when the selection is cleared)
SelectionXs == {<<>>, <<0>>, <<1>>, <<1, 0>>, <<1, 1>>, <<1, 0, 1>>}

Plotly_selection ==
    \E xs \in SelectionXs :
        /\ \A i \in 1 .. Len(xs) :
              xs[i] < Len(widget._current_heatmap_sample_order_indices)
        /\ call' = WidgetCall("_on_plotly_selection", xs, widget)
        /\ LET sel == plotly_selection_view(widget, xs)
           IN  IF sel.exc # ""
                   THEN /\ ret' = Raise(sel.exc)
                        /\ widget' = widget
               ELSE /\ ret' = None
                    /\ widget' =
                           IF ~SameSorted(sel.view, widget.selected_sample_ids_from_heatmap)
                           THEN [widget EXCEPT !.selected_sample_ids_from_heatmap = sel.view]
                           ELSE widget
        /\ UNCHANGED <<H, sample_ids, cancer_types, calls, loader, app>>

\* the widget as __init__ leaves it: the first K file, sort "component",
\* one _recreate_figure, both dropdowns observed
InitWidget ==
    /\ H = Matrix(0, 0, <<>>)
    /\ sample_ids = <<>>
    /\ cancer_types = <<>>
    /\ ret = None
    /\ calls = <<>>
    /\ loader = [disk |-> WidgetDisk, cache |-> <<>>, read_csv |-> <<>>]
    /\ \E env \in {EnvGroups, EnvFileMissing} :
          /\ call = WidgetCall("__init__", "", NewWidget(env))
          /\ widget \in _recreate_figure(NewWidget(env), WidgetDisk)
    /\ app = NoApp

NextWidget ==
    \/ K_change
    \/ Sort_change
    \/ External_highlight
    \/ Plotly_selection

SpecWidget == InitWidget /\ [][NextWidget]_vars

-----------------------------------------------------------------------------
(* create_nmf_scatter_visualization, nmf_vis_app/scatter_plot_utils.py: the
   heatmap and the UMAP scatter plot with their shared selection.  H,
   sample_ids and cancer_types are the data load_all_data returns, in file
   order; the app record holds the closure's state: samp_order (the column
   order of the heatmap figure), selected_sample_ids, umap_data (the sample
   ids of umap_scatter.data), selectedpoints (of the figure's traces), xaxis
   (of its layout) and table (the data table output). *)

DefaultCsv == "comps/all_H_component_contributions.csv"

\* the contents of the default csv: two files whose component order of the
\* samples is [1, 0] and [0, 1]
AppFrames ==
    {Frame(<<BRCA \o <<"-", "1">>, LUAD \o <<"-", "1">>>>, Matrix(2, 2, <<<<1, 0>>, <<2, 0>>>>)),
     Frame(<<BRCA \o <<"-", "1">>, LUAD \o <<"-", "1">>>>, Matrix(2, 2, <<<<2, 0>>, <<1, 0>>>>))}

\* the closure's state when create_nmf_scatter_visualization returns
NewApp(sort_method, env, samp_order, ids) ==
    [constructed |-> TRUE,
     sort_method |-> sort_method,
     env |-> env,
     samp_order |-> samp_order,
     selected_sample_ids |-> <<>>,
     umap_data |-> ids,
     selectedpoints |-> [kind |-> "True", val |-> <<>>],
     xaxis |-> [kind |-> "initial", range |-> <<>>],
     table |-> <<"Select points on either visualization to see details">>]

\* original_umap_df[original_umap_df["Sample ID"].isin(selected)]: the rows
\* of the frame whose id is selected, in frame order
RECURSIVE isin(_, _)
isin(ids, selected) ==
    IF ids = <<>> THEN <<>>
    ELSE (IF \E k \in 1 .. Len(selected) : selected[k] = Head(ids)
              THEN <<Head(ids)>> ELSE <<>>) \o isin(Tail(ids), selected)

\* [i for i, sid in enumerate(sample_ids) if sid in selected_sample_ids]
RECURSIVE selected_indices_from(_, _, _)
selected_indices_from(ids, selected, i) ==
    IF i >= Len(ids) THEN <<>>
    ELSE (IF \E k \in 1 .. Len(selected) : selected[k] = At(ids, i)
              THEN <<i>> ELSE <<>>) \o selected_indices_from(ids, selected, i + 1)

Max2(a, b) == IF a >= b THEN a ELSE b
Min2(a, b) == IF a <= b THEN a ELSE b

\* [min_idx, max_idx] of lines 299-300: the selection padded by 3, clipped
focus_range(selected_indices, n_samples) ==
    <<Max2(0, selected_indices[1] - 3),
      Min2(n_samples - 1, selected_indices[Len(selected_indices)] + 3)>>

\* (update_selection_unguarded: without the early return of lines 236-237)
update_selection_unguarded(a, ids, source, new_selection) ==
    LET selected_indices == selected_indices_from(ids, new_selection, 0)
        tabled == [a EXCEPT !.selected_sample_ids = new_selection,
                            !.table = IF new_selection # <<>> THEN isin(ids, new_selection)
                                      ELSE <<"No samples selected">>]
    IN  IF source = "heatmap" THEN
            IF new_selection # <<>> THEN
                [tabled EXCEPT !.umap_data = isin(ids, new_selection),
                               !.xaxis = IF selected_indices # <<>>
                                         THEN [kind |-> "range",
                                               range |-> focus_range(selected_indices, Len(ids))]
                                         ELSE @]
            ELSE [tabled EXCEPT !.umap_data = ids,
                                !.xaxis = [kind |-> "autorange", range |-> <<>>]]
        ELSE
            IF new_selection # <<>> THEN
                IF selected_indices # <<>> THEN
                    [tabled EXCEPT !.selectedpoints = [kind |-> "list", val |-> selected_indices],
                                   !.xaxis = [kind |-> "range",
                                              range |-> focus_range(selected_indices, Len(ids))]]
                ELSE [tabled EXCEPT !.selectedpoints = [kind |-> "None", val |-> <<>>]]
            ELSE [tabled EXCEPT !.selectedpoints = [kind |-> "None", val |-> <<>>],
                                !.xaxis = [kind |-> "autorange", range |-> <<>>]]

\* update_selection(source, new_selection): the closure's state after it
update_selection(a, ids, source, new_selection) ==
    IF SameSorted(new_selection, a.selected_sample_ids) THEN a
    ELSE
    LET selected_indices == selected_indices_from(ids, new_selection, 0)
        tabled == [a EXCEPT !.selected_sample_ids = new_selection,
                            !.table = IF new_selection # <<>> THEN isin(ids, new_selection)
                                      ELSE <<"No samples selected">>]
    IN  IF source = "heatmap" THEN
            IF new_selection # <<>> THEN
                [tabled EXCEPT !.umap_data = isin(ids, new_selection),
                               !.xaxis = IF selected_indices # <<>>
                                         THEN [kind |-> "range",
                                               range |-> focus_range(selected_indices, Len(ids))]
                                         ELSE @]
            ELSE [tabled EXCEPT !.umap_data = ids,
                                !.xaxis = [kind |-> "autorange", range |-> <<>>]]
        ELSE
            IF new_selection # <<>> THEN
                IF selected_indices # <<>> THEN
                    [tabled EXCEPT !.selectedpoints = [kind |-> "list", val |-> selected_indices],
                                   !.xaxis = [kind |-> "range",
                                              range |-> focus_range(selected_indices, Len(ids))]]
                ELSE [tabled EXCEPT !.selectedpoints = [kind |-> "None", val |-> <<>>]]
            ELSE [tabled EXCEPT !.selectedpoints = [kind |-> "None", val |-> <<>>],
                                !.xaxis = [kind |-> "autorange", range |-> <<>>]]

\* the items of data at those of the indices that are below its length
RECURSIVE items_in_bounds(_, _)
items_in_bounds(data, inds) ==
    IF inds = <<>> THEN <<>>
    ELSE (IF Head(inds) < Len(data) THEN <<At(data, Head(inds))>> ELSE <<>>)
             \o items_in_bounds(data, Tail(inds))

\* on_plotly_selection: the sample ids the heatmap hands to update_selection,
\* read from the traces' customdata (sample_ids, line 181)
on_plotly_selection(ids, point_inds) == items_in_bounds(ids, point_inds)

\* on_umap_selection: the sample ids the scatter plot hands to
\* update_selection, read from its current data
on_umap_selection(a, selection_indices) == items_in_bounds(a.umap_data, selection_indices)

\* an event on one of the two views: the handler, the indices it is handed,
\* the selection it passes on, and the selection held when it arrived
AppCall(fn, new, selection, a) ==
    [fn |-> fn, module |-> "nmf_vis_app", sort_method |-> "", env |-> NoEnv, new |-> new,
     selection |-> selection,
     old |-> [selected |-> a.selected_sample_ids]]

\* the point indices of a selection event (2 is beyond the two samples)
PointIndices == {<<>>, <<0>>, <<1>>, <<0, 1>>, <<1, 0>>, <<2>>}

Heatmap_selected ==
    \E point_inds \in PointIndices :
        LET selection == on_plotly_selection(sample_ids, point_inds)
        IN  /\ call' = AppCall("on_plotly_selection", point_inds, selection, app)
            /\ app' = update_selection(app, sample_ids, "heatmap", selection)
            /\ ret' = None
            /\ UNCHANGED <<H, sample_ids, cancer_types, calls, loader, widget>>

Umap_selected ==
    \E selection_indices \in PointIndices :
        LET selection == on_umap_selection(app, selection_indices)
        IN  /\ call' = AppCall("on_umap_selection", selection_indices, selection, app)
            /\ app' = update_selection(app, sample_ids, "umap", selection)
            /\ ret' = None
            /\ UNCHANGED <<H, sample_ids, cancer_types, calls, loader, widget>>

\* the state create_nmf_scatter_visualization returns in: load_all_data and
\* create_nmf_heatmap_figure have both ordered the samples of the default
\* csv by helpers' get_sample_order (a call that raises ends the
\* construction)
InitApp ==
    \E frame \in AppFrames, sort_method \in SortOptions, env \in {EnvGroups, EnvFileMissing} :
        LET got == _get_dataframe([disk |-> (DefaultCsv :> frame),
                                   cache |-> (DefaultCsv :> NoFrame),
                                   read_csv |-> (DefaultCsv :> 0)], DefaultCsv)
            data == prepare(got.out.val, NoSelection)
        IN  /\ data.exc = ""
            /\ H = data.val[1]
            /\ sample_ids = data.val[2]
            /\ cancer_types = data.val[3]
            /\ loader = got.loader
            /\ \E order \in helpers_get_sample_order(sort_method, H, sample_ids,
                                                      cancer_types, env) :
                  /\ order.exc = ""
                  /\ app = NewApp(sort_method, env, order.val, sample_ids)
            /\ call = AppCall("create_nmf_scatter_visualization", <<>>, <<>>,
                              [selected_sample_ids |-> <<>>])
            /\ ret = [exc |-> "", type |-> "VBox", val |-> <<>>, printed |-> <<>>]
            /\ calls = <<>>
            /\ widget = NoWidget

NextApp ==
    \/ Heatmap_selected
    \/ Umap_selected

SpecApp == InitApp /\ [][NextApp]_vars

-----------------------------------------------------------------------------
(* Claims about the sort engine and the component ranker (under Spec) *)

BarSortReturned == call.fn = "bar_sort_order" /\ ret.exc = ""

\* the winner the specification defines: the lowest column holding the row's
\* maximum
LowestMaxColumn(mat, r) ==
    CHOOSE c \in Indices(mat.ncols) :
        /\ \A c2 \in Indices(mat.ncols) : At(mat.rows[r + 1], c2) <= At(mat.rows[r + 1], c)
        /\ \A c2 \in Indices(mat.ncols) :
              At(mat.rows[r + 1], c2) = At(mat.rows[r + 1], c) => c <= c2

Cell(mat, r, c) == At(mat.rows[r + 1], c)

\* C1: for a matrix with at least one row and one column, bar_sort_order
\* returns (does not raise) a sequence in which every row index 0..n_rows-1
\* appears exactly once.
C1_BarSortIsPermutation ==
    (call.fn = "bar_sort_order" /\ H.nrows >= 1 /\ H.ncols >= 1) =>
        /\ ret.exc = ""
        /\ ret.type = "ndarray"
        /\ Len(ret.val) = H.nrows
        /\ \A r \in Indices(H.nrows) : Cardinality({i \in 1 .. Len(ret.val) : ret.val[i] = r}) = 1

C1_Witness ==
    /\ BarSortReturned
    /\ H.nrows = MaxRows /\ H.ncols = MaxCols
    /\ \E i, j \in 1 .. Len(ret.val) :
          LowestMaxColumn(H, ret.val[i]) # LowestMaxColumn(H, ret.val[j])

\* C2: read left to right, the winner column (lowest column of the row's
\* maximum) of the rows of bar_sort_order's output never decreases.
C2_GroupsInColumnOrder ==
    BarSortReturned =>
        \A i, j \in 1 .. Len(ret.val) :
            i < j => LowestMaxColumn(H, ret.val[i]) <= LowestMaxColumn(H, ret.val[j])

\* a row whose maximum is tied between two columns sits in the lower
\* column's group, before a row won by the higher column
C2_Witness ==
    /\ BarSortReturned
    /\ H.ncols >= 2
    /\ \E i, j \in 1 .. Len(ret.val) :
          /\ i < j
          /\ Cell(H, ret.val[i], 0) = Cell(H, ret.val[i], 1)
          /\ LowestMaxColumn(H, ret.val[i]) = 0
          /\ LowestMaxColumn(H, ret.val[j]) = 1

\* C3: within one winner group of the output, the values in the group's
\* winning column never increase along the output.
C3_DescendingWithinGroup ==
    BarSortReturned =>
        \A i, j \in 1 .. Len(ret.val) :
            (i < j /\ LowestMaxColumn(H, ret.val[i]) = LowestMaxColumn(H, ret.val[j])) =>
                Cell(H, ret.val[i], LowestMaxColumn(H, ret.val[i]))
                    >= Cell(H, ret.val[j], LowestMaxColumn(H, ret.val[i]))

\* two rows of one group with different activities, the larger one first and
\* the row with the larger index first
C3_Witness ==
    /\ BarSortReturned
    /\ \E i, j \in 1 .. Len(ret.val) :
          /\ i < j
          /\ ret.val[i] > ret.val[j]
          /\ LowestMaxColumn(H, ret.val[i]) = LowestMaxColumn(H, ret.val[j])
          /\ Cell(H, ret.val[i], LowestMaxColumn(H, ret.val[i]))
                > Cell(H, ret.val[j], LowestMaxColumn(H, ret.val[i]))

\* C4: two rows with the same winner and equal values in the winning column
\* appear in ascending original row index order.
C4_TiesInRowOrder ==
    BarSortReturned =>
        \A i, j \in 1 .. Len(ret.val) :
            ( /\ i < j
              /\ LowestMaxColumn(H, ret.val[i]) = LowestMaxColumn(H, ret.val[j])
              /\ Cell(H, ret.val[i], LowestMaxColumn(H, ret.val[i]))
                    = Cell(H, ret.val[j], LowestMaxColumn(H, ret.val[i])) )
            => ret.val[i] < ret.val[j]

\* C5: with zero rows or zero columns bar_sort_order returns the empty
\* permutation and raises nothing.
C5_EmptyInputReturnsEmpty ==
    (call.fn = "bar_sort_order" /\ (H.nrows = 0 \/ H.ncols = 0)) => ret = Ok(<<>>)

RankReturned == call.fn = "rank_components" /\ ret.exc = ""

ColumnSum(mat, c) == SumSeq(Column(mat, c))

\* C6: the component ranking is a permutation of 0..n_components-1 along
\* which the column sums never increase, and columns with equal sums appear
\* in ascending original column index.
C6_RankingDescendingStable ==
    RankReturned =>
        /\ IsPermutationOfRange(ret.val, H.ncols)
        /\ \A i, j \in 1 .. Len(ret.val) :
              i < j =>
                /\ ColumnSum(H, ret.val[i]) >= ColumnSum(H, ret.val[j])
                /\ ColumnSum(H, ret.val[i]) = ColumnSum(H, ret.val[j]) => ret.val[i] < ret.val[j]

\* C7: ranking a matrix whose columns are already in non-increasing
\* column-sum order (equal sums included) returns the identity permutation.
C7_RankingIdempotent ==
    ( /\ RankReturned
      /\ \A c \in Indices(H.ncols - 1) : ColumnSum(H, c) >= ColumnSum(H, c + 1) )
    => ret.val = [i \in 1 .. H.ncols |-> i - 1]

-----------------------------------------------------------------------------
(* Claims about get_sample_order (under SpecOrder) *)

OrderCall(m) == call.fn = "get_sample_order" /\ call.module = m

ReturnsPermutationOfRows ==
    /\ ret.exc = ""
    /\ ret.type = "ndarray"
    /\ Len(ret.val) = H.nrows
    /\ \A r \in Indices(H.nrows) : Cardinality({i \in 1 .. Len(ret.val) : ret.val[i] = r}) = 1

\* C8: nmf_vis get_sample_order returns a permutation of 0..n_rows-1 for each
\* of the five strategy names and for an unrecognized name (matrix with at
\* least one component, sample ids and cancer types as long as the matrix
\* has rows), whatever the state of the grouping file.
C8_NmfVisOrderIsPermutation ==
    OrderCall("nmf_vis") => ReturnsPermutationOfRows

\* a partition strategy with two non-empty partitions, the later rows first
C8_Witness ==
    /\ OrderCall("nmf_vis")
    /\ call.sort_method = "organ_system"
    /\ call.env = EnvPartialGroups
    /\ H.nrows = MaxRows
    /\ ReturnsPermutationOfRows
    /\ ret.val[1] = H.nrows - 1
    /\ Prefix(sample_ids[1], CodeLen) = BRCA
    /\ Prefix(sample_ids[H.nrows], CodeLen) = LUAD

\* C9: helpers get_sample_order returns, without raising, a permutation of
\* 0..n_rows-1 for each of the five strategy names.
C9_HelpersOrderIsPermutation ==
    (OrderCall("helpers") /\ call.sort_method \in SortMethods) => ReturnsPermutationOfRows

\* position in `order` of the first column holding row r's maximum
WinnerPosition(mat, order, r) ==
    CHOOSE p \in 1 .. Len(order) :
        /\ \A q \in 1 .. Len(order) : Cell(mat, r, order[q]) <= Cell(mat, r, order[p])
        /\ \A q \in 1 .. (p - 1) : Cell(mat, r, order[q]) < Cell(mat, r, order[p])

\* `rows` lists row indices of mat grouped by winner in the column order
\* `order`, descending by the winning column inside each group
GroupedAndRanked(mat, order, rows) ==
    \A i, j \in 1 .. Len(rows) :
        i < j =>
            /\ WinnerPosition(mat, order, rows[i]) <= WinnerPosition(mat, order, rows[j])
            /\ WinnerPosition(mat, order, rows[i]) = WinnerPosition(mat, order, rows[j]) =>
                  Cell(mat, rows[i], order[WinnerPosition(mat, order, rows[i])])
                      >= Cell(mat, rows[j], order[WinnerPosition(mat, order, rows[i])])

\* a column order along which the column sums of mat never increase
IsComponentOrder(mat, order) ==
    /\ IsPermutationOfRange(order, mat.ncols)
    /\ \A i \in 1 .. (Len(order) - 1) : ColumnSum(mat, order[i]) >= ColumnSum(mat, order[i + 1])

\* C10: the component strategy (either copy) returns the rows of the original
\* matrix as bar_sort_order orders them on the matrix with ComponentOrder
\* applied to its columns: grouped by winner in ComponentOrder, descending
\* inside each group; for H = [[3,1],[1,4],[4,0],[0,5]] that is [3,1,2,0].
C10_ComponentStrategy ==
    (call.fn = "get_sample_order" /\ call.sort_method = "component") =>
        /\ ReturnsPermutationOfRows
        /\ \E order \in Permutations0(H.ncols) :
              IsComponentOrder(H, order) /\ GroupedAndRanked(H, order, ret.val)
        /\ H = ScenarioH => ret.val = <<3, 1, 2, 0>>

C10_Witness ==
    /\ call.fn = "get_sample_order" /\ call.sort_method = "component"
    /\ H = ScenarioH
    /\ ret = Ok(<<3, 1, 2, 0>>)

\* C11: the alphabetical strategy returns the permutation that lists
\* sample_ids in ascending lexicographic order, equal identifiers in their
\* original relative order; ["TCGA-03", "TCGA-01", "TCGA-02"] gives [1, 2, 0].
C11_AlphabeticalStable ==
    (call.fn = "get_sample_order" /\ call.sort_method = "alphabetical") =>
        /\ ret.exc = ""
        /\ IsPermutationOfRange(ret.val, Len(sample_ids))
        /\ \A i, j \in 1 .. Len(ret.val) :
              i < j =>
                  /\ StrLeq(At(sample_ids, ret.val[i]), At(sample_ids, ret.val[j]))
                  /\ At(sample_ids, ret.val[i]) = At(sample_ids, ret.val[j]) =>
                        ret.val[i] < ret.val[j]
        /\ sample_ids = AlphaExampleIds => ret.val = <<1, 2, 0>>

\* `rows` lists row indices of H partition by partition: the labels never
\* decrease along it (so the rows of one label are contiguous and the labels
\* ascend), and for one component order of the whole matrix the rows of each
\* label are grouped by winner and descending inside each group
PartitionedThenRanked(labels, rows) ==
    /\ \A i, j \in 1 .. Len(rows) :
          i < j => StrLeq(At(labels, rows[i]), At(labels, rows[j]))
    /\ \E order \in Permutations0(H.ncols) :
          /\ IsComponentOrder(H, order)
          /\ \A r \in 1 .. Len(rows) :
                GroupedAndRanked(H, order,
                    SelectSeq(rows, LAMBDA x : At(labels, x) = At(labels, rows[r])))

\* C12: the cancer_type strategy of nmf_vis lists the partitions in ascending
\* label order, labels never decreasing along the output, and the block of a
\* label is its rows (a permutation of the indices holding the label) as
\* bar_sort_order ranks them on the matrix whose columns are in the
\* ComponentOrder of the whole matrix.
C12_CancerTypePartitions ==
    (OrderCall("nmf_vis") /\ call.sort_method = "cancer_type") =>
        /\ ReturnsPermutationOfRows
        /\ PartitionedThenRanked(cancer_types, ret.val)

\* two cancer types, the later label on the first row: the output starts
\* with the last row
C12_Witness ==
    /\ OrderCall("nmf_vis") /\ call.sort_method = "cancer_type"
    /\ H.nrows = MaxRows
    /\ cancer_types[1] = LUAD
    /\ cancer_types[H.nrows] = BRCA
    /\ ret.exc = ""
    /\ ret.val[1] = H.nrows - 1

\* the grouping table is read: config and file load, every group well formed
TableLoads(env) ==
    env.config_loads /\ env.file_opens /\ ~groups_malformed(env.groupings)

\* the name of the group that lists `code`, "Unknown" when no group does
GroupNameOf(env, code) ==
    IF \E g \in 1 .. Len(env.groupings) :
           \E c \in 1 .. Len(env.groupings[g].cancer_codes) :
               env.groupings[g].cancer_codes[c] = code
    THEN (CHOOSE grp \in {env.groupings[g] : g \in 1 .. Len(env.groupings)} :
              \E c \in 1 .. Len(grp.cancer_codes) : grp.cancer_codes[c] = code).group_name
    ELSE Unknown

\* C13: when the grouping table loads, the organ_system strategy of nmf_vis
\* labels each sample with the group name its cancer code (the first four
\* characters of its id) maps to, "Unknown" when the table does not list the
\* code, and orders the samples by these labels as cancer_type does:
\* partitions in ascending label order, each ranked by bar_sort_order.
C13_OrganSystemPartitions ==
    (OrderCall("nmf_vis") /\ call.sort_method = "organ_system" /\ TableLoads(call.env)) =>
        /\ ReturnsPermutationOfRows
        /\ PartitionedThenRanked(
               [i \in 1 .. Len(sample_ids) |->
                   GroupNameOf(call.env, Prefix(sample_ids[i], CodeLen))],
               ret.val)

\* the scenario with a table that lists LUAD only: the Thoracic rows 0 and 2
\* first, then the Unknown rows 1 and 3, each block ranked
C13_Witness ==
    /\ OrderCall("nmf_vis") /\ call.sort_method = "organ_system"
    /\ call.env = EnvPartialGroups
    /\ H = ScenarioH
    /\ ret = Ok(<<2, 0, 3, 1>>)

\* C14: when its grouping table loads, the organ_system strategy of helpers
\* returns the samples with their organ labels (the group of the first four
\* characters of the cancer type) never decreasing along the order, each
\* label's block ranked by bar_sort_order.
C14_HelpersOrganSystemGrouped ==
    (OrderCall("helpers") /\ call.sort_method = "organ_system" /\ TableLoads(call.env)) =>
        /\ ReturnsPermutationOfRows
        /\ PartitionedThenRanked(
               [i \in 1 .. Len(cancer_types) |->
                   GroupNameOf(call.env, Prefix(cancer_types[i], CodeLen))],
               ret.val)

\* C15: the embryonic_layer strategy (either copy) partitions the samples by
\* the layer their cancer code maps to in the embryonic-layer grouping table
\* and ranks each partition: samples of one layer contiguous, layers
\* ascending, each block ranked by bar_sort_order.
C15_EmbryonicLayerPartitions ==
    (call.fn = "get_sample_order" /\ call.sort_method = "embryonic_layer") =>
        /\ ReturnsPermutationOfRows
        /\ PartitionedThenRanked(
               [i \in 1 .. Len(sample_ids) |->
                   GroupNameOf(EmbryonicLayerEnv, Prefix(sample_ids[i], CodeLen))],
               ret.val)

\* ret is an output of the component strategy on H: the rows grouped by
\* winner and descending inside each group, for a component order of H
IsComponentOutput ==
    /\ ReturnsPermutationOfRows
    /\ \E order \in Permutations0(H.ncols) :
          IsComponentOrder(H, order) /\ GroupedAndRanked(H, order, ret.val)

\* C16: in each copy, get_sample_order with a strategy name that is none of
\* the five does not raise and returns what the component strategy returns
\* on the same matrix.
C16_UnrecognizedIsComponent ==
    (call.fn = "get_sample_order" /\ call.sort_method \notin SortMethods) =>
        IsComponentOutput

\* the configuration loads and the grouping file is absent or unreadable, or
\* one of its groups lacks an expected key
GroupingUnavailable(env) ==
    /\ env.config_loads
    /\ ~env.file_opens \/ groups_malformed(env.groupings)

\* C17: in each copy, the organ_system strategy with the grouping file
\* absent, unreadable or lacking the expected keys does not raise and
\* returns the component strategy's output for the whole matrix.
C17_OrganSystemFallsBackToComponent ==
    ( /\ call.fn = "get_sample_order"
      /\ call.sort_method = "organ_system"
      /\ GroupingUnavailable(call.env) )
    => IsComponentOutput

\* C18: with a grouping file that parses and holds an empty grouping list,
\* the organ_system strategy (either copy) returns what the component
\* strategy returns on the same matrix.
C18_EmptyGroupingIsComponent ==
    ( /\ call.fn = "get_sample_order"
      /\ call.sort_method = "organ_system"
      /\ call.env.config_loads /\ call.env.file_opens
      /\ call.env.groupings = <<>> )
    => IsComponentOutput

\* the call fell back to the component ordering: the name is none of the
\* five, or organ_system could not read its grouping table, and an order
\* came back
FellBack ==
    /\ call.fn = "get_sample_order"
    /\ \/ call.sort_method \notin SortMethods
       \/ call.sort_method = "organ_system" /\ ~TableLoads(call.env)
    /\ ret.exc = ""

\* C19: every fallback to the component ordering (grouping table
\* unavailable in organ_system, or unrecognized strategy name) prints a
\* report; no fallback is silent.
C19_FallbackIsReported ==
    FellBack => ret.printed # <<>>

\* C20 (under SpecMismatch): when the matrix has a row count that differs
\* from the length of the sample-id list or of the label list, nmf_vis
\* get_sample_order raises for every strategy that uses the mismatched list
\* (alphabetical and organ_system read sample_ids, cancer_type reads
\* cancer_types), and whatever it returns is a permutation of 0..n_rows-1.
C20_MismatchSurfaces ==
    OrderCall("nmf_vis") =>
        /\ ( \/ /\ call.sort_method \in {"alphabetical", "organ_system"}
                /\ Len(sample_ids) # H.nrows
             \/ /\ call.sort_method = "cancer_type"
                /\ Len(cancer_types) # H.nrows )
           => ret.exc # ""
        /\ ret.exc = "" => ReturnsPermutationOfRows

-----------------------------------------------------------------------------
(* Claims about repeated calls (under SpecCalls) *)

-----------------------------------------------------------------------------
(* Claims about the category mapper (under SpecMapper) *)

\* the group of the table that lists `code`, 0 when none does
ListingGroup(table, code) ==
    IF \E g \in 1 .. Len(table) : \E c \in 1 .. Len(table[g].cancer_codes) :
           table[g].cancer_codes[c] = code
    THEN CHOOSE g \in 1 .. Len(table) :
             \E c \in 1 .. Len(table[g].cancer_codes) : table[g].cancer_codes[c] = code
    ELSE 0

\* C22: the category mapper returns one group label and one color per input
\* code, position by position: the name and color of the group that lists
\* the code, "Unknown" and #CCCCCC for a code no group lists; when the
\* grouping file cannot be loaded every code maps to "Unknown".
C22_MapperAligned ==
    call.fn = "_map_cancer_codes_to_organ_systems" =>
        /\ ret.exc = ""
        /\ Len(ret.val[1]) = Len(cancer_types)
        /\ Len(ret.val[2]) = Len(cancer_types)
        /\ \A i \in 1 .. Len(cancer_types) :
              LET g == ListingGroup(call.env.groupings, cancer_types[i])
              IN  IF call.env.file_opens /\ g # 0
                  THEN /\ ret.val[1][i] = call.env.groupings[g].group_name
                       /\ ret.val[2][i] = call.env.groupings[g].color
                  ELSE /\ ret.val[1][i] = Unknown
                       /\ ret.val[2][i] = GrayColor

\* a listed code after an unlisted one
C22_Witness ==
    /\ call.fn = "_map_cancer_codes_to_organ_systems"
    /\ call.env = EnvColoredPartial
    /\ cancer_types = <<BRCA, LUAD>>
    /\ ret.val = <<<<Unknown, Thoracic>>, <<GrayColor, "#1f77b4">>>>

-----------------------------------------------------------------------------
(* Claims about the loaders (under SpecLoader) *)

\* C23: over any sequence of _get_dataframe and _get_prepared_data calls of
\* one loader module, each file path is parsed at most once; the entry the
\* cache takes is the whole parsed file, it never changes afterwards (a row
\* selection does not alter it), and _get_dataframe returns the cached
\* entry.
C23_ParsedAtMostOnce ==
    [][\A f \in CsvPaths :
          /\ loader'.read_csv[f] <= 1
          /\ loader.cache[f] # NoFrame =>
                /\ loader'.cache[f] = loader.cache[f]
                /\ loader'.read_csv[f] = loader.read_csv[f]
          /\ (loader.cache[f] = NoFrame /\ loader'.cache[f] # NoFrame) =>
                loader'.cache[f] = loader.disk[f]
          /\ (call'.fn = "_get_dataframe" /\ call'.path = f /\ ret'.exc = "") =>
                ret'.val = loader'.cache[f]
      ]_vars

\* a file cached, rewritten on disk, and fetched again with a row selection:
\* the rows come from the cached frame
C23_Witness ==
    /\ call.fn = "_get_prepared_data"
    /\ call.selection = Select(<<1, 0>>)
    /\ ret.exc = ""
    /\ loader.read_csv[call.path] = 1
    /\ loader.disk[call.path] # loader.cache[call.path]
    /\ Len(loader.cache[call.path].sample_id) = 2
    /\ ret.val[2] = TakeItems(loader.cache[call.path].sample_id, <<1, 0>>)

\* C24: what get_prepared_data / _get_prepared_data return is row-aligned:
\* H has as many rows as sample_ids and cancer_types have entries, also
\* under a row selection, and cancer_types[i] is the first four characters
\* of sample_ids[i].
C24_LoaderRowAligned ==
    (call.fn \in {"_get_prepared_data", "get_prepared_data"} /\ ret.exc = "") =>
        /\ ret.val[1].nrows = Len(ret.val[2])
        /\ Len(ret.val[1].rows) = Len(ret.val[2])
        /\ Len(ret.val[3]) = Len(ret.val[2])
        /\ \A i \in 1 .. Len(ret.val[2]) :
              ret.val[3][i] = SubSeq(ret.val[2][i], 1, 4)

\* one row selected out of a file of two
C24_Witness ==
    /\ call.fn = "_get_prepared_data"
    /\ call.selection = Select(<<0>>)
    /\ Len(loader.cache[call.path].sample_id) = 2
    /\ ret.exc = ""
    /\ ret.val[1].nrows = 1
    /\ ret.val[3] = <<BRCA>>

-----------------------------------------------------------------------------
(* Claims about NMFHeatmapWidget (under SpecWidget) *)

\* the orders helpers get_sample_order returns for the data of the widget's
\* current K file under its current sort method
OrdersForCurrent(w) ==
    LET data == get_prepared_data(WidgetDisk, w._current_k_file)
    IN  IF data.exc # "" THEN {}
        ELSE {r.val : r \in {q \in helpers_get_sample_order(w._current_sort, data.val[1],
                                                               data.val[2], data.val[3],
                                                               w.env) : q.exc = ""}}

C25_SelectionInRange ==
    ~(call.fn = "_on_plotly_selection" /\ ret.exc = "IndexError")

DistinctAscending(xs) ==
    LET ps == {xs[i] : i \in 1 .. Len(xs)}
    IN  CHOOSE seq \in [1 .. Cardinality(ps) -> ps] :
            \A i, j \in 1 .. Cardinality(ps) : i < j => seq[i] < seq[j]

\* the sample ids at the original indices order[p] of the distinct selected
\* x positions p
IdsAtPositions(w, xs) ==
    LET ps == DistinctAscending(xs)
    IN  [i \in 1 .. Len(ps) |->
            w._all_original_sample_ids_for_current_k[
                w._current_heatmap_sample_order_indices[ps[i] + 1] + 1]]

-----------------------------------------------------------------------------
(* Claims about create_nmf_scatter_visualization (under SpecApp) *)

\* the display positions, under the order the heatmap is drawn in, of the
\* samples in selected
DisplayPositions(order, ids, selected) ==
    {j \in 0 .. Len(order) - 1 :
        \E k \in 1 .. Len(selected) : selected[k] = At(ids, At(order, j))}

\* C29: after a UMAP selection, the positions set as selectedpoints on the
\* heatmap traces, and the positions the zoom range is padded from, are the
\* display positions of exactly the selected samples under the current sort
\* order.
C29_SelectedPointsAreDisplayPositions ==
    (app.constructed /\ call.fn = "on_umap_selection"
        /\ app.selectedpoints.kind = "list") =>
        {app.selectedpoints.val[i] : i \in 1 .. Len(app.selectedpoints.val)}
            = DisplayPositions(app.samp_order, sample_ids, app.selected_sample_ids)

\* C30: update_selection called from either view with the same multiset of
\* sample ids as the current selection changes no state.
C30_SameSelectionChangesNothing ==
    [][(call'.module = "nmf_vis_app"
          /\ SameSorted(call'.selection, app.selected_sample_ids)) => app' = app]_vars

\* the UMAP view echoed back, in another order, the two samples a heatmap
\* selection had filtered it to; the heatmap's selected points were left
\* as they were
C30_Witness ==
    /\ call.fn = "on_umap_selection"
    /\ Len(call.selection) = 2
    /\ call.selection # call.old.selected
    /\ SameSorted(call.selection, call.old.selected)
    /\ app.selected_sample_ids = call.old.selected
    /\ app.selectedpoints.kind = "True"
    /\ app.xaxis.kind = "range"

=============================================================================
